---- MODULE Spec2Model ----
(***************************************************************************)
(* Model of NeuGeometry/core.py (snapshot core_20250212161619.py): the     *)
(* shape resolution and the angle family (reject, angle, signed_angle,     *)
(* minimal_line_signed_angle), the leaf primitives (normalise, magnitude,  *)
(* pairwise_euclidean) and the reweighting loop of robust_covariance_mest. *)
(*                                                                         *)
(* Representation.                                                         *)
(*  - A vector has three components.  Every component the code can produce *)
(*    from integer inputs is rational, so a vector is [num, den]: the      *)
(*    integer triple num divided by the positive integer den, in lowest    *)
(*    terms.                                                               *)
(*  - An array is [ndim, rows]: ndim is the rank the caller passed (1 or   *)
(*    2) and rows the sequence of its vectors; a rank-1 array has one row. *)
(*  - Arithmetic is that of JAX's default float32 on small integers: the   *)
(*    1e-10 regularisers are absorbed by any non-zero denominator          *)
(*    (x + 1e-10 = x) and only act on a zero denominator (0 / 1e-10 = 0).  *)
(*    Square roots and quotients are exact, as they are up to rounding.    *)
(*  - disable_jit is JAX's jax_disable_jit setting: every function is      *)
(*    wrapped in @jit, under which .item() of a traced array raises, while *)
(*    with the setting on the body runs on concrete arrays.                *)
(*  - A cosine is [s, p, q], the number s * sqrt(p / q) with p / q in      *)
(*    lowest terms; arccos is injective, so an angle in [0, pi] is kept as *)
(*    its cosine.  An angle value is [sgn, c, unit]: sgn * arccos(c) in    *)
(*    radians, multiplied by 180 / pi when unit = "deg".                   *)
(*  - A call outcome is [status, ndim, val]: status "ok" with the rank and *)
(*    the elements of the returned array, or the error that was raised.    *)
(*  - A norm or a distance is [p, q], the number sqrt(p / q); NaN is the   *)
(*    pair [0, 0].  A normalised row is [num, sq]: num / sqrt(sq).         *)
(*  - robust_covariance_mest works on points of the plane with exact       *)
(*    rational scalars [n, d].  An entry of a covariance matrix is         *)
(*    [n, d, e]: n / d plus e times the 1e-6 of the regulariser, which is  *)
(*    kept apart so that a matrix with and without it differ; the inverse  *)
(*    is that of the limit of a vanishing regulariser.  The while_loop is  *)
(*    three steps: EnterLoop forms state0, BodyFn runs one iteration while *)
(*    cond_fn holds, ExitLoop returns sigma_final when it fails.           *)
(*  - coord_eig_decomp is six steps, one per statement: Center,            *)
(*    Covariance, Eigh, PCANormalise, Sort, Transpose.  An eigenvalue of   *)
(*    the 2 x 2 covariance is the exact number t + s * sqrt(r); the        *)
(*    eigenvector components are the solver's own values, identified by    *)
(*    the matrix, the column and the row.                                  *)
(***************************************************************************)
EXTENDS Integers, Sequences, FiniteSets, TLC

VARIABLES v1, v2, plane_normal, use_normal, assume_normalized, to_degree,
          disable_jit, arr, op, ret

(* robust_covariance_mest: its arguments, the state of its while_loop, and
   the distances and weights its last iteration computed. *)
VARIABLES X, c, tol, max_iter, state, mahal, weights

(* coord_eig_decomp: its arguments (coords is rebound by the centring) and
   its locals cov, evals and evecs. *)
VARIABLES coords, robust, center, PCA, sort, transpose, cov, evals, evecs

vars == <<v1, v2, plane_normal, use_normal, assume_normalized, to_degree,
          disable_jit, arr, op, ret, X, c, tol, max_iter, state, mahal,
          weights, coords, robust, center, PCA, sort, transpose, cov, evals,
          evecs>>

(* ------------------------------ bounds --------------------------------- *)
MaxBatch == 3
MaxCoord == 1
MaxIter == 2

(* --------------------------- integer helpers --------------------------- *)
Abs(x) == IF x < 0 THEN -x ELSE x

Sign(x) == IF x > 0 THEN 1 ELSE IF x < 0 THEN -1 ELSE 0

Max(a, b) == IF a >= b THEN a ELSE b

RECURSIVE GCD(_, _)
GCD(a, b) == IF b = 0 THEN a ELSE GCD(b, a % b)

Dot(a, b) == a[1] * b[1] + a[2] * b[2] + a[3] * b[3]

Cross(a, b) == << a[2] * b[3] - a[3] * b[2],
                  a[3] * b[1] - a[1] * b[3],
                  a[1] * b[2] - a[2] * b[1] >>

Scale(k, a) == << k * a[1], k * a[2], k * a[3] >>

Sub(a, b) == << a[1] - b[1], a[2] - b[2], a[3] - b[3] >>

(* The rational vector n / d (d > 0) in lowest terms. *)
Rat(n, d) ==
    LET g == GCD(GCD(GCD(Abs(n[1]), Abs(n[2])), Abs(n[3])), d)
    IN  [num |-> << n[1] \div g, n[2] \div g, n[3] \div g >>, den |-> d \div g]

Vec(n) == [num |-> n, den |-> 1]

(* ------------------------------ arrays --------------------------------- *)
Arr(nd, rs) == [ndim |-> nd, rows |-> rs]

NRows(a) == Len(a.rows)

atleast_2d(a) == Arr(2, a.rows)

broadcast_to(a, n) == Arr(2, [i \in 1..n |-> a.rows[1]])

(* Mutant: every row is read from the first row. *)
Row_First(a, i) == a.rows[1]

(* Row i of a under the array library's implicit broadcasting of a
   one-row operand. *)
Row(a, i) == IF NRows(a) = 1 THEN a.rows[1] ELSE a.rows[i]

(* ------------------------------ outcomes ------------------------------- *)
NoResult == [status |-> "none", ndim |-> 0, val |-> << >>]

Raise(e) == [status |-> e, ndim |-> 0, val |-> << >>]

Return(nd, xs) == [status |-> "ok", ndim |-> nd, val |-> xs]

(* ------------------------------- reject -------------------------------- *)
(* Mutant: the projection is not divided by dot(f, f). *)
RejectRow_Undivided(v, f) ==
    Rat(Sub(v.num, Scale(Dot(v.num, f.num), f.num)), v.den * f.den * f.den)

(* v - (dot(v, f) / (dot(f, f) + 1e-10)) * f for one pair of rows. *)
RejectRow(v, f) ==
    LET ff == Dot(f.num, f.num)
        vf == Dot(v.num, f.num)
    IN  IF ff = 0 THEN v
        ELSE Rat(Sub(Scale(ff, v.num), Scale(vf, f.num)), v.den * ff)

(* Mutant: one-row operands are not exempted. *)
RejectMismatch_NoBroadcast(a, b) == a /= b

(* The guard of reject's raise, on the two row counts. *)
RejectMismatch(a, b) == a /= b /\ a /= 1 /\ b /= 1

reject(v, from_v) ==
    LET a == atleast_2d(v)
        b == atleast_2d(from_v)
        n == Max(NRows(a), NRows(b))
        result == [i \in 1..n |-> RejectRow(Row(a, i), Row(b, i))]
    IN  IF RejectMismatch(NRows(a), NRows(b)) THEN Raise("ShapeMismatch")
        ELSE IF v.ndim = 1 /\ from_v.ndim = 1 THEN Return(1, << result[1] >>)
        ELSE Return(2, result)

(* ------------------------------- angle --------------------------------- *)
(* The number s * sqrt(p / q), p / q in lowest terms. *)
Cos(s, p, q) ==
    IF s = 0 \/ p = 0 THEN [s |-> 0, p |-> 0, q |-> 1]
    ELSE LET g == GCD(p, q) IN [s |-> s, p |-> p \div g, q |-> q \div g]

(* Mutant: the cosine reaches arccos as it is. *)
clip_Unclamped(x) == x

(* jnp.clip(c, -1.0, 1.0) *)
clip(x) == IF x.p > x.q THEN [s |-> x.s, p |-> 1, q |-> 1] ELSE x

(* dot(a, b): the cosine used when assume_normalized is true. *)
RawDot(a, b) ==
    LET d == Dot(a.num, b.num)
    IN  Cos(Sign(d), d * d, (a.den * b.den) * (a.den * b.den))

(* dot(a, b) / (magnitude(a) * magnitude(b) + 1e-10) *)
RegularisedCos(a, b) ==
    LET d == Dot(a.num, b.num)
        m == Dot(a.num, a.num) * Dot(b.num, b.num)
    IN  IF m = 0 THEN Cos(0, 0, 1) ELSE Cos(Sign(d), d * d, m)

(* sgn * arccos(c) in the given unit; -0.0 and 0.0 are the same number. *)
Ang(sgn, x, unit) ==
    [sgn |-> IF x.s = 1 /\ x.p = x.q THEN 1 ELSE sgn, c |-> x, unit |-> unit]

arccos(x) == Ang(1, x, "rad")

(* jnp.degrees, applied to a value in radians. *)
degrees(a) == Ang(a.sgn, a.c, "deg")

(* lax.cond(to_degree, jnp.degrees, identity, xs) *)
CondDegrees(flag, xs) ==
    IF flag THEN [i \in 1..Len(xs) |-> degrees(xs[i])] ELSE xs

(* sign * a for sign in {-1, 1} *)
Times(sign, a) == Ang(sign * a.sgn, a.c, a.unit)

(* Mutant: the array is returned as it is. *)
item_NoCollapse(xs, nojit) ==
    IF ~nojit THEN Raise("ConcretizationTypeError") ELSE Return(1, xs)

(* angles.item(): a Python scalar from a one-element concrete array. *)
item(xs, nojit) ==
    IF ~nojit THEN Raise("ConcretizationTypeError")
    ELSE IF Len(xs) /= 1 THEN Raise("ItemSizeError")
    ELSE Return(0, << xs[1] >>)

(* The guard of angle's raise, on the two row counts. *)
AngleMismatch(a, b) == a /= b /\ a /= 1 /\ b /= 1

AngleRows(a1, a2, normalized, deg, orig1d, nojit) ==
    LET b1 == IF NRows(a1) = 1 THEN broadcast_to(a1, NRows(a2)) ELSE a1
        b2 == IF NRows(a2) = 1 THEN broadcast_to(a2, NRows(b1)) ELSE a2
        cosines == [i \in 1..NRows(b1) |->
                      IF normalized THEN RawDot(b1.rows[i], b2.rows[i])
                      ELSE RegularisedCos(b1.rows[i], b2.rows[i])]
        angles == CondDegrees(deg,
                      [i \in 1..NRows(b1) |-> arccos(clip(cosines[i]))])
    IN  IF AngleMismatch(NRows(a1), NRows(a2)) THEN Raise("ShapeMismatch")
        ELSE IF orig1d THEN item(angles, nojit)
        ELSE Return(1, angles)

(* Mutant: the plane normal is never applied. *)
angle_NoProjection(a, b, normal, given, normalized, deg, nojit) ==
    AngleRows(atleast_2d(a), atleast_2d(b), normalized, deg,
              a.ndim = 1 /\ b.ndim = 1, nojit)

(* normal is the plane normal; given is false when the caller passed None. *)
angle(a, b, normal, given, normalized, deg, nojit) ==
    LET r1 == IF given THEN reject(a, normal) ELSE Return(a.ndim, a.rows)
        r2 == IF given THEN reject(b, normal) ELSE Return(b.ndim, b.rows)
    IN  IF r1.status /= "ok" THEN r1
        ELSE IF r2.status /= "ok" THEN r2
        ELSE AngleRows(Arr(2, r1.val), Arr(2, r2.val), normalized, deg,
                       a.ndim = 1 /\ b.ndim = 1, nojit)

(* ---------------------------- signed_angle ----------------------------- *)
(* The second definition of the module, the one the name is bound to. *)
(* Mutant: a zero sign is not replaced by +1. *)
SignRow_ZeroKept(a, b, n) == Sign(Dot(Cross(a.num, b.num), n.num))

(* Mutant: the sign is never applied. *)
SignRow_Positive(a, b, n) == 1

(* sign(dot(cross(a, b), n)), a zero replaced by +1. *)
SignRow(a, b, n) ==
    LET s == Sign(Dot(Cross(a.num, b.num), n.num))
    IN  IF s = 0 THEN 1 ELSE s

(* Mutant: a one-row second operand is not exempted. *)
SignedMismatch_FirstOnly(a, b) == a /= b /\ a /= 1

(* The guard of signed_angle's raise, on the two row counts. *)
SignedMismatch(a, b) == a /= b /\ a /= 1 /\ b /= 1

(* Mutant: the rank of the plane normal is not consulted. *)
AllOrig1d_NoNormal(a, b, normal) == a.ndim = 1 /\ b.ndim = 1

(* orig_v1_is_1d and orig_v2_is_1d and orig_normal_is_1d *)
AllOrig1d(a, b, normal) == a.ndim = 1 /\ b.ndim = 1 /\ normal.ndim = 1

SignedRows(a1, a2, normal, deg, orig1d) ==
    LET b1 == IF NRows(a1) = 1 THEN broadcast_to(a1, NRows(a2)) ELSE a1
        b2 == IF NRows(a2) = 1 THEN broadcast_to(a2, NRows(b1)) ELSE a2
        n2 == atleast_2d(normal)
        m == Max(NRows(b1), NRows(n2))
        angle_rad == [i \in 1..NRows(b1) |->
                        arccos(clip(RegularisedCos(b1.rows[i], b2.rows[i])))]
        signed_angle_rad ==
            [i \in 1..m |->
                Times(SignRow(Row(b1, i), Row(b2, i), Row(n2, i)),
                      IF NRows(b1) = 1 THEN angle_rad[1] ELSE angle_rad[i])]
        out_angle == CondDegrees(deg, signed_angle_rad)
    IN  IF SignedMismatch(NRows(a1), NRows(a2)) THEN Raise("ShapeMismatch")
        ELSE IF NRows(b1) /= NRows(n2) /\ NRows(b1) /= 1 /\ NRows(n2) /= 1
             THEN Raise("BroadcastError")
        ELSE IF orig1d THEN Return(0, << out_angle[1] >>)
        ELSE Return(1, out_angle)

signed_angle(a, b, normal, deg) ==
    LET r1 == reject(a, normal)
        r2 == reject(b, normal)
    IN  IF r1.status /= "ok" THEN r1
        ELSE IF r2.status /= "ok" THEN r2
        ELSE SignedRows(Arr(2, r1.val), Arr(2, r2.val), normal, deg,
                        AllOrig1d(a, b, normal))

(* --------------------- signed_angle, first definition ------------------ *)
(* The definition the second one shadows. *)
(* The guard of its raise, on the three row counts. *)
FirstSignedMismatch(n1, n2, n3) ==
    (n1 /= n2 \/ n1 /= n3) /\ (n1 /= 1 /\ n2 /= 1 /\ n3 /= 1)

(* The leading axis of x * y, or 0 when the two do not broadcast. *)
BroadcastRows(n, m) == IF n = m \/ n = 1 \/ m = 1 THEN Max(n, m) ELSE 0

signed_angle_first(a, b, normal, deg, nojit) ==
    LET a2 == atleast_2d(a)
        b2 == atleast_2d(b)
        n2 == atleast_2d(normal)
        b1 == IF NRows(a2) = 1
              THEN broadcast_to(a2, Max(NRows(b2), NRows(n2))) ELSE a2
        bb == IF NRows(b2) = 1
              THEN broadcast_to(b2, Max(NRows(b1), NRows(n2))) ELSE b2
        bn == IF NRows(n2) = 1
              THEN broadcast_to(n2, Max(NRows(b1), NRows(bb))) ELSE n2
        crossRows == BroadcastRows(NRows(b1), NRows(bb))
        signRows == BroadcastRows(crossRows, NRows(bn))
        unsigned_angle == angle(b1, bb, bn, TRUE, FALSE, deg, nojit)
        result == [i \in 1..signRows |->
                      Times(SignRow(Row(b1, i), Row(bb, i), Row(bn, i)),
                            IF Len(unsigned_angle.val) = 1
                            THEN unsigned_angle.val[1]
                            ELSE unsigned_angle.val[i])]
    IN  IF FirstSignedMismatch(NRows(a2), NRows(b2), NRows(n2))
        THEN Raise("ShapeMismatch")
        ELSE IF crossRows = 0 \/ signRows = 0 THEN Raise("BroadcastError")
        ELSE IF unsigned_angle.status /= "ok" THEN unsigned_angle
        ELSE IF AllOrig1d(a, b, normal) THEN item(result, nojit)
        ELSE Return(1, result)

(* ---------------------- minimal_line_signed_angle ---------------------- *)
(* Mutant: the threshold is pi, which no angle exceeds. *)
ExceedsHalfPi_Pi(a) == FALSE

(* Mutant: an angle of exactly pi / 2 is folded too. *)
ExceedsHalfPi_Inclusive(a) == a.c.s <= 0

(* |a| > pi / 2 for a in radians: the cosine of |a| is negative. *)
ExceedsHalfPi(a) == a.c.s < 0

(* Mutant: the magnitude is folded and the side is kept. *)
MinusSignPi_SameSide(a) ==
    Ang(a.sgn, [s |-> -a.c.s, p |-> a.c.p, q |-> a.c.q], a.unit)

(* a - sign(a) * pi for pi / 2 < |a| <= pi: the angle of magnitude
   pi - |a| (whose cosine is -cos |a|) on the other side. *)
MinusSignPi(a) == Ang(-a.sgn, [s |-> -a.c.s, p |-> a.c.p, q |-> a.c.q], a.unit)

Fold(a) == IF ExceedsHalfPi(a) THEN MinusSignPi(a) ELSE a

minimal_line_signed_angle(a, b, normal, deg) ==
    LET angle_rad == signed_angle(a, b, normal, FALSE)
        minimal_angle_rad ==
            [i \in 1..Len(angle_rad.val) |-> Fold(angle_rad.val[i])]
    IN  IF angle_rad.status /= "ok" THEN angle_rad
        ELSE Return(angle_rad.ndim, CondDegrees(deg, minimal_angle_rad))

(* --------------------------- leaf primitives --------------------------- *)
(* The number sqrt(p / q), p / q in lowest terms. *)
Root(p, q) == LET g == GCD(p, q) IN [p |-> p \div g, q |-> q \div g]

(* jnp.nan *)
NaN == [p |-> 0, q |-> 0]

(* jnp.full((n,), jnp.nan) *)
NaNs(n) == [i \in 1..n |-> NaN]

(* Mutant: rank 3 passes the assertion. *)
NormaliseRankOK_NoUpper(nd) == nd >= 1

(* arr.ndim in {1, 2} *)
NormaliseRankOK(nd) == nd \in {1, 2}

(* One row divided by max(norm, eps): the unit vector num / sqrt(sq), num
   in lowest terms; the zero vector, whose norm eps replaces, stays zero. *)
NormaliseRow(v) ==
    LET g == GCD(GCD(Abs(v.num[1]), Abs(v.num[2])), Abs(v.num[3]))
        u == << v.num[1] \div g, v.num[2] \div g, v.num[3] \div g >>
    IN  IF g = 0 THEN [num |-> v.num, sq |-> 1]
        ELSE [num |-> u, sq |-> Dot(u, u)]

normalise(a) ==
    IF ~NormaliseRankOK(a.ndim) THEN Raise("AssertionError")
    ELSE Return(a.ndim, [i \in 1..NRows(a) |-> NormaliseRow(a.rows[i])])

(* sqrt(sum(v ** 2)) for one row. *)
MagnitudeRow(v) == Root(Dot(v.num, v.num), v.den * v.den)

magnitude(a) ==
    IF a.ndim \notin {1, 2} THEN Return(0, << NaN >>)
    ELSE Return(a.ndim - 1, [i \in 1..NRows(a) |-> MagnitudeRow(a.rows[i])])

(* ------------------------- pairwise_euclidean -------------------------- *)
(* The array library's rule for the leading axis of v1 - v2. *)
Broadcastable(n, m) == n = m \/ n = 1 \/ m = 1

(* Mutant: the distance is measured from the origin. *)
DistanceRow_FromOrigin(a, b) == Root(Dot(a.num, a.num), a.den * a.den)

(* norm(a - b) for one pair of rows. *)
DistanceRow(a, b) ==
    LET d == Sub(Scale(b.den, a.num), Scale(a.den, b.num))
    IN  Root(Dot(d, d), (a.den * b.den) * (a.den * b.den))

(* Mutant: two single points give a scalar. *)
DistanceRank_Collapsed(a, b) == IF a.ndim = 1 /\ b.ndim = 1 THEN 0 ELSE 1

(* The rank of the array pairwise_euclidean returns: the norm along axis 1
   of lifted operands, whatever ranks were passed. *)
DistanceRank(a, b) == 1

(* Both branches of the jnp.where are computed before it selects: the
   subtraction of rows that do not broadcast raises. *)
pairwise_euclidean(a, b) ==
    LET x == atleast_2d(a)
        y == atleast_2d(b)
        cond1 == NRows(x) = NRows(y)
        cond2 == NRows(x) = 1
        cond3 == NRows(y) = 1
        n == Max(NRows(x), NRows(y))
        norms == [i \in 1..n |-> DistanceRow(Row(x, i), Row(y, i))]
    IN  IF ~Broadcastable(NRows(x), NRows(y)) THEN Raise("BroadcastError")
        ELSE IF cond1 \/ cond2 \/ cond3
             THEN Return(DistanceRank(a, b), norms)
        ELSE Return(DistanceRank(a, b), NaNs(n))

(* ----------------------- robust_covariance_mest ------------------------ *)
(* Exact scalars: the rational n / d, d > 0, in lowest terms. *)
Q(n, d) ==
    LET g == GCD(Abs(n), Abs(d))
    IN  [n |-> Sign(d) * (n \div g), d |-> Abs(d) \div g]

Whole(k) == [n |-> k, d |-> 1]

QAdd(a, b) ==
    LET g == GCD(a.d, b.d)
    IN  Q(a.n * (b.d \div g) + b.n * (a.d \div g), (a.d \div g) * b.d)

QNeg(a) == [n |-> -a.n, d |-> a.d]

QSub(a, b) == QAdd(a, QNeg(b))

QMul(a, b) ==
    LET g1 == GCD(Abs(a.n), b.d)
        g2 == GCD(Abs(b.n), a.d)
    IN  IF a.n = 0 \/ b.n = 0 THEN Whole(0)
        ELSE [n |-> (a.n \div g1) * (b.n \div g2),
              d |-> (a.d \div g2) * (b.d \div g1)]

(* a / b for b /= 0 *)
QDiv(a, b) == QMul(a, Q(b.d, b.n))

QLess(a, b) == a.n * b.d < b.n * a.d

RECURSIVE QSum(_)
QSum(xs) == IF xs = << >> THEN Whole(0) ELSE QAdd(Head(xs), QSum(Tail(xs)))

(* A point or a mean is a pair of scalars; a matrix is two rows of two
   entries [n, d, e]: the scalar n / d plus e times 1e-6. *)
Point(x) == << Whole(x[1]), Whole(x[2]) >>

Entry(q) == [n |-> q.n, d |-> q.d, e |-> 0]

Plain(x) == [n |-> x.n, d |-> x.d]

(* jnp.sum(w[:, None] * P, axis=0) / jnp.sum(w): column k. *)
WeightedMean(P, w, k) ==
    QDiv(QSum([j \in 1..Len(P) |-> QMul(w[j], P[j][k])]), QSum(w))

(* Mutant: the points are not taken as deviations from m. *)
WeightedCov_Uncentred(P, m, w) ==
    LET e(a, b) == Entry(QDiv(
                      QSum([j \in 1..Len(P) |->
                               QMul(w[j], QMul(P[j][a], P[j][b]))]),
                      QSum(w)))
    IN  << << e(1, 1), e(1, 2) >>, << e(2, 1), e(2, 2) >> >>

(* (D.T @ (w[:, None] * D)) / jnp.sum(w) for the rows D = P - m. *)
WeightedCov(P, m, w) ==
    LET D == [j \in 1..Len(P) |->
                 << QSub(P[j][1], m[1]), QSub(P[j][2], m[2]) >>]
        e(a, b) == Entry(QDiv(
                      QSum([j \in 1..Len(P) |->
                               QMul(w[j], QMul(D[j][a], D[j][b]))]),
                      QSum(w)))
    IN  << << e(1, 1), e(1, 2) >>, << e(2, 1), e(2, 2) >> >>

Ones(n) == [j \in 1..n |-> Whole(1)]

(* mu0 = jnp.mean(X, axis=0) *)
Mean(P) == << WeightedMean(P, Ones(Len(P)), 1),
              WeightedMean(P, Ones(Len(P)), 2) >>

(* Mutant: the second moments about the origin. *)
BiasedCov_AboutOrigin(D) ==
    WeightedCov(D, << Whole(0), Whole(0) >>, Ones(Len(D)))

(* jnp.cov(D, rowvar=False, bias=True): about the mean of D, over n. *)
BiasedCov(D) == WeightedCov(D, Mean(D), Ones(Len(D)))

(* sigma + jnp.eye(d) * 1e-6 *)
Regularised(S) ==
    << << [S[1][1] EXCEPT !.e = @ + 1], S[1][2] >>,
       << S[2][1], [S[2][2] EXCEPT !.e = @ + 1] >> >>

(* jnp.inf, the quotient by the zero determinant of an unregularised
   singular matrix. *)
Inf == [n |-> 1, d |-> 0]

(* dv @ inv(R) @ dv for a symmetric R.  When R is invertible without its
   1e-6 parts these are dropped; a singular R is invertible only by them,
   and dv, a deviation from the weighted mean of the points whose weighted
   covariance R regularises, has no component outside the range of that
   covariance: there the form is that of the pseudo-inverse,
   (dv @ S @ dv) / trace(S)^2 for S of rank 1 and 0 for S = 0. *)
Mahalanobis(dv, R) ==
    LET a == Plain(R[1][1])
        b == Plain(R[1][2])
        d == Plain(R[2][2])
        det == QSub(QMul(a, d), QMul(b, b))
        tr == QAdd(a, d)
        xx == QMul(dv[1], dv[1])
        xy == QMul(dv[1], dv[2])
        yy == QMul(dv[2], dv[2])
    IN  IF det.n /= 0
        THEN QDiv(QAdd(QSub(QMul(xx, d), QMul(Whole(2), QMul(xy, b))),
                       QMul(yy, a)), det)
        ELSE IF R[1][1].e = 0 \/ R[2][2].e = 0 THEN Inf
        ELSE IF tr.n = 0 THEN Whole(0)
        ELSE QDiv(QAdd(QAdd(QMul(xx, a), QMul(Whole(2), QMul(xy, b))),
                       QMul(yy, d)), QMul(tr, tr))

(* Mutant: a point at or beyond c ** 2 is left out. *)
Weight_HardCut(m, cc) == IF QLess(m, cc) THEN Whole(1) ELSE Whole(0)

(* jnp.where(mahal < c ** 2, 1.0, c ** 2 / mahal) for one point. *)
Weight(m, cc) ==
    IF m.d = 0 THEN Whole(0)
    ELSE IF QLess(m, cc) THEN Whole(1)
    ELSE QDiv(cc, m)

(* Mutant: no shift counts as converged. *)
ShiftBelow_Never(new_mu, mu, t) == FALSE

(* Mutant: a shift equal to tol counts as converged. *)
ShiftBelow_OrEqual(new_mu, mu, t) ==
    LET dx == QSub(new_mu[1], mu[1])
        dy == QSub(new_mu[2], mu[2])
    IN  t.n >= 0 /\ ~QLess(QMul(t, t), QAdd(QMul(dx, dx), QMul(dy, dy)))

(* jnp.linalg.norm(new_mu - mu) < tol, compared through the squares. *)
ShiftBelow(new_mu, mu, t) ==
    LET dx == QSub(new_mu[1], mu[1])
        dy == QSub(new_mu[2], mu[2])
        sq == QAdd(QMul(dx, dx), QMul(dy, dy))
    IN  t.n > 0 /\ (sq.n = 0 \/ QLess(sq, QMul(t, t)))

(* state0 = (mu0, sigma0, 0, False) *)
state0(P) ==
    LET mu0 == Mean(P)
        diff0 == [j \in 1..Len(P) |->
                     << QSub(P[j][1], mu0[1]), QSub(P[j][2], mu0[2]) >>]
    IN  [mu |-> mu0, sigma |-> BiasedCov(diff0), i |-> 0,
         converged |-> FALSE]

(* Mutant: the cap is not consulted. *)
cond_fn_NoCap(st, cap) == ~st.converged

cond_fn(st, cap) == st.i < cap /\ ~st.converged

(* The squared Mahalanobis distances body_fn computes from a state. *)
BodyMahal(P, st) ==
    [j \in 1..Len(P) |->
        Mahalanobis(<< QSub(P[j][1], st.mu[1]), QSub(P[j][2], st.mu[2]) >>,
                    Regularised(st.sigma))]

BodyWeights(P, st, cc) ==
    [j \in 1..Len(P) |-> Weight(BodyMahal(P, st)[j], cc)]

body_fn(P, st, cc, t) ==
    LET w == BodyWeights(P, st, cc)
        new_mu == << WeightedMean(P, w, 1), WeightedMean(P, w, 2) >>
    IN  [mu |-> new_mu,
         sigma |-> WeightedCov(P, new_mu, w),
         i |-> st.i + 1,
         converged |-> ShiftBelow(new_mu, st.mu, t)]

(* ------------------------------ inputs --------------------------------- *)
Coords(m) == { << x, y, z >> : x \in -m..m, y \in -m..m, z \in -m..m }

(* Vectors the batches of the shape runs are cut from. *)
Pool == << << 1, 0, 0 >>, << 0, 1, 1 >>, << -1, 2, 0 >> >>

Batch(start, n) ==
    [i \in 1..n |-> Vec(Pool[((start + i - 2) % Len(Pool)) + 1])]

(* The loop state before state0 is formed. *)
NoState == [mu |-> << >>, sigma |-> << >>, i |-> 0, converged |-> FALSE]

(* No call of robust_covariance_mest is under way. *)
NoCovariance ==
    /\ X = << >>
    /\ c = Whole(1)
    /\ tol = Whole(0)
    /\ max_iter = 0
    /\ state = NoState
    /\ mahal = << >>
    /\ weights = << >>

(* No call of coord_eig_decomp is under way. *)
NoDecomposition ==
    /\ coords = << >>
    /\ robust = FALSE
    /\ center = FALSE
    /\ PCA = FALSE
    /\ sort = FALSE
    /\ transpose = FALSE
    /\ cov = << >>
    /\ evals = << >>
    /\ evecs = << >>

ShapeArrays ==
    { Arr(1, Batch(s, 1)) : s \in 1..Len(Pool) } \cup
    { Arr(2, Batch(s, n)) : s \in 1..Len(Pool), n \in 1..MaxBatch }

Init ==
    /\ v1 \in ShapeArrays
    /\ v2 \in ShapeArrays
    /\ plane_normal \in ShapeArrays
    /\ use_normal \in BOOLEAN
    /\ assume_normalized \in BOOLEAN
    /\ to_degree \in BOOLEAN
    /\ disable_jit \in BOOLEAN
    /\ arr = Arr(1, Batch(1, 1))
    /\ NoCovariance
    /\ NoDecomposition
    /\ op = "none"
    /\ ret = NoResult

(* Plane normals of the value runs: none, an axis in both directions,
   and normals that make the projections rational. *)
Normals == { << 0, 0, 0 >>, << 0, 0, 1 >>, << 0, 0, -1 >>,
             << 1, 1, 0 >>, << 1, 1, 1 >>, << 2, 0, -1 >> }

(* Vectors for the degenerate calls of angle: the zero vector, unit and
   non-unit vectors, and vectors parallel to one of the Normals. *)
Degenerate == { << 0, 0, 0 >>, << 1, 0, 0 >>, << 0, 0, 1 >>, << 0, 0, -2 >>,
                << 1, 1, 0 >>, << 1, 1, 1 >>, << -2, -2, -2 >>,
                << -1, 2, 0 >> }

(* One vector each, rank 1 or a one-row batch, every mode of angle. *)
InitDeg ==
    /\ v1 \in { Arr(k, << Vec(x) >>) : k \in 1..2, x \in Degenerate }
    /\ v2 \in { Arr(k, << Vec(x) >>) : k \in 1..2, x \in Degenerate }
    /\ plane_normal \in { Arr(1, << Vec(x) >>) : x \in Normals }
    /\ use_normal \in BOOLEAN
    /\ assume_normalized \in BOOLEAN
    /\ to_degree \in BOOLEAN
    /\ disable_jit \in BOOLEAN
    /\ arr = Arr(1, Batch(1, 1))
    /\ NoCovariance
    /\ NoDecomposition
    /\ op = "none"
    /\ ret = NoResult

(* Single vectors with every small integer coordinate, for the values. *)
InitVal ==
    /\ v1 \in { Arr(1, << Vec(x) >>) : x \in Coords(MaxCoord) }
    /\ v2 \in { Arr(1, << Vec(x) >>) : x \in Coords(MaxCoord) }
    /\ plane_normal \in { Arr(1, << Vec(x) >>) : x \in Normals }
    /\ use_normal = TRUE
    /\ assume_normalized = FALSE
    /\ to_degree \in BOOLEAN
    /\ disable_jit = TRUE
    /\ arr = Arr(1, Batch(1, 1))
    /\ NoCovariance
    /\ NoDecomposition
    /\ op = "none"
    /\ ret = NoResult

(* Arrays for the leaf primitives: the batches above, the zero vector, and
   arrays of rank 0 (no row) and of rank 3 (a stack of one batch). *)
LeafArrays ==
    ShapeArrays \cup
    { Arr(1, << Vec(<< 0, 0, 0 >>) >>), Arr(0, << >>) } \cup
    { Arr(3, Batch(1, n)) : n \in 1..MaxBatch }

(* Calls of the leaf primitives and of pairwise_euclidean. *)
InitLeaf ==
    /\ v1 \in ShapeArrays
    /\ v2 \in ShapeArrays
    /\ plane_normal = Arr(1, Batch(1, 1))
    /\ use_normal = FALSE
    /\ assume_normalized = FALSE
    /\ to_degree = FALSE
    /\ disable_jit = FALSE
    /\ arr \in LeafArrays
    /\ NoCovariance
    /\ NoDecomposition
    /\ op = "none"
    /\ ret = NoResult

(* Point sets in the plane: symmetric about their mean, on a line (one
   direction without variance), repeated points, one point, and sets with
   a point far enough from the rest to be down-weighted. *)
PointSets ==
    { << << 1, 0 >>, << -1, 0 >>, << 0, 1 >>, << 0, -1 >> >>,
      << << 0, 0 >>, << 1, 0 >>, << 2, 0 >>, << 3, 0 >> >>,
      << << 1, 0 >>, << 1, 1 >>, << 1, 2 >>, << 1, 3 >> >>,
      << << -1, 0 >>, << 1, 0 >> >>,
      << << 1, 1 >>, << 1, 1 >> >>,
      << << 2, -1 >> >>,
      << << 0, 0 >>, << 0, 0 >>, << 0, 1 >>, << 2, 1 >> >>,
      << << 0, 0 >>, << 1, 1 >>, << 1, 1 >>, << 2, 0 >> >>,
      << << 0, 0 >>, << 0, 0 >>, << 1, 1 >>, << 3, 1 >> >> }

(* Tuning constants c > 0, the default 1.5 among them. *)
Tunings == { Q(1, 1), Q(3, 2) }

(* Tolerances: none reachable (negative, zero), and positive ones that
   the mean shifts of the point sets cross at different iterations. *)
Tolerances == { Q(-1, 1), Q(0, 1), Q(1, 8), Q(1, 4), Q(1, 1) }

GeometryArgs == <<v1, v2, plane_normal, use_normal, assume_normalized,
                  to_degree, disable_jit, arr>>

(* Calls of robust_covariance_mest. *)
InitCov ==
    /\ v1 = Arr(1, Batch(1, 1))
    /\ v2 = Arr(1, Batch(1, 1))
    /\ plane_normal = Arr(1, Batch(1, 1))
    /\ use_normal = FALSE
    /\ assume_normalized = FALSE
    /\ to_degree = FALSE
    /\ disable_jit = FALSE
    /\ arr = Arr(1, Batch(1, 1))
    /\ X \in PointSets
    /\ c \in Tunings
    /\ tol \in Tolerances
    /\ max_iter \in 0..MaxIter
    /\ state = NoState
    /\ mahal = << >>
    /\ weights = << >>
    /\ NoDecomposition
    /\ op = "none"
    /\ ret = NoResult

CovarianceArgs == <<X, c, tol, max_iter>>

DecompositionArgs == <<coords, robust, center, PCA, sort, transpose>>

Decomposition == <<DecompositionArgs, cov, evals, evecs>>

Inputs == <<GeometryArgs, CovarianceArgs, state, mahal, weights,
            Decomposition>>

(* ------------------------------ actions -------------------------------- *)
Reject ==
    /\ op = "none"
    /\ op' = "reject"
    /\ ret' = reject(v1, v2)
    /\ UNCHANGED Inputs

Angle ==
    /\ op = "none"
    /\ op' = "angle"
    /\ ret' = angle(v1, v2, plane_normal, use_normal, assume_normalized,
                    to_degree, disable_jit)
    /\ UNCHANGED Inputs

SignedAngle ==
    /\ op = "none"
    /\ op' = "signed_angle"
    /\ ret' = signed_angle(v1, v2, plane_normal, to_degree)
    /\ UNCHANGED Inputs

MinimalLineSignedAngle ==
    /\ op = "none"
    /\ op' = "minimal_line_signed_angle"
    /\ ret' = minimal_line_signed_angle(v1, v2, plane_normal, to_degree)
    /\ UNCHANGED Inputs

Next == Reject \/ Angle \/ SignedAngle \/ MinimalLineSignedAngle

Spec == Init /\ [][Next]_vars

(* Calls of one function each on the vectors of InitVal. *)
SpecProject == InitVal /\ [][Reject]_vars

SpecSigned == InitVal /\ [][SignedAngle]_vars

SpecDeg == InitDeg /\ [][Next]_vars

SpecLine == InitVal /\ [][MinimalLineSignedAngle]_vars

Normalise ==
    /\ op = "none"
    /\ op' = "normalise"
    /\ ret' = normalise(arr)
    /\ UNCHANGED Inputs

Magnitude ==
    /\ op = "none"
    /\ op' = "magnitude"
    /\ ret' = magnitude(arr)
    /\ UNCHANGED Inputs

PairwiseEuclidean ==
    /\ op = "none"
    /\ op' = "pairwise_euclidean"
    /\ ret' = pairwise_euclidean(v1, v2)
    /\ UNCHANGED Inputs

NextLeaf == Normalise \/ Magnitude \/ PairwiseEuclidean

SpecLeaf == InitLeaf /\ [][NextLeaf]_vars

(* The points of X as exact scalars. *)
Points == [j \in 1..Len(X) |-> Point(X[j])]

(* Lines 323-330: the classical mean and covariance enter the loop. *)
EnterLoop ==
    /\ op = "none"
    /\ op' = "while_loop"
    /\ state' = state0(Points)
    /\ UNCHANGED <<GeometryArgs, Decomposition, CovarianceArgs, mahal,
                   weights, ret>>

(* One iteration of lax.while_loop: cond_fn holds and body_fn runs. *)
BodyFn ==
    /\ op = "while_loop"
    /\ cond_fn(state, max_iter)
    /\ state' = body_fn(Points, state, QMul(c, c), tol)
    /\ mahal' = BodyMahal(Points, state)
    /\ weights' = BodyWeights(Points, state, QMul(c, c))
    /\ UNCHANGED <<GeometryArgs, Decomposition, CovarianceArgs, op, ret>>

(* Mutant: the returned matrix is the regularised one. *)
Returned_Regularised(st) == Regularised(st.sigma)

(* sigma_final *)
Returned(st) == st.sigma

(* cond_fn fails: the loop ends and sigma_final is returned. *)
ExitLoop ==
    /\ op = "while_loop"
    /\ ~cond_fn(state, max_iter)
    /\ op' = "robust_covariance_mest"
    /\ ret' = Return(2, Returned(state))
    /\ UNCHANGED <<GeometryArgs, Decomposition, CovarianceArgs, state,
                   mahal, weights>>

NextCov == EnterLoop \/ BodyFn \/ ExitLoop

SpecCov == InitCov /\ [][NextCov]_vars

(* A call runs until it returns: each of its three steps is taken when it
   stays possible.  This is weak fairness of each step; for EnterLoop and
   BodyFn the condition under which the step is possible is written out. *)
SpecCovFair ==
    /\ SpecCov
    /\ ([]<>(op /= "none") \/ []<><<EnterLoop>>_vars)
    /\ ([]<>(~(op = "while_loop" /\ cond_fn(state, max_iter)))
          \/ []<><<BodyFn>>_vars)
    /\ WF_vars(ExitLoop)

(* --------------------------- coord_eig_decomp -------------------------- *)
(* The defaults of robust_covariance_mest, which coord_eig_decomp calls
   with the points alone. *)
DefaultC == Q(3, 2)

DefaultTol == Q(1, 1000000)

DefaultMaxIter == 100

(* lax.while_loop(cond_fn, body_fn, state0) *)
RECURSIVE while_loop(_, _, _, _, _)
while_loop(P, st, cc, t, cap) ==
    IF cond_fn(st, cap)
    THEN while_loop(P, body_fn(P, st, cc, t), cc, t, cap)
    ELSE st

robust_covariance_mest(P, cval, t, cap) ==
    Returned(while_loop(P, state0(P), QMul(cval, cval), t, cap))

(* c - jnp.mean(c, axis=0) *)
Centred(P) ==
    LET m == Mean(P)
    IN  [j \in 1..Len(P) |-> << QSub(P[j][1], m[1]), QSub(P[j][2], m[2]) >>]

(* lax.cond(center, ...) *)
cond_center(flag, P) == IF flag THEN Centred(P) ELSE P

(* lax.cond(robust, robust_covariance_mest, jnp.cov(rowvar=False,
   bias=True)) *)
cond_robust(flag, P) ==
    IF flag
    THEN robust_covariance_mest(P, DefaultC, DefaultTol, DefaultMaxIter)
    ELSE BiasedCov(P)

(* An eigenvalue is the number t + s * sqrt(r), t and r >= 0 rational and
   s in {-1, 0, 1}, s = 0 exactly when r = 0; the two eigenvalues of one
   matrix have the same t and r. *)
Ev(t, s, r) ==
    IF r.n = 0 \/ s = 0 THEN [t |-> t, s |-> 0, r |-> Whole(0)]
    ELSE [t |-> t, s |-> s, r |-> r]

(* The eigenvalue 0 / 0. *)
EvNaN == [t |-> [n |-> 0, d |-> 0], s |-> 0, r |-> Whole(0)]

IsNaN(e) == e.t.d = 0

(* jnp.linalg.eigh of the symmetric S = [[a, b], [b, d]]: the eigenvalues
   (a + d) / 2 -+ sqrt(((a - d) / 2) ** 2 + b ** 2) in ascending order and
   a matrix with one eigenvector per column.  Component i of the
   eigenvector in column j is the solver's own: it is identified by S, j
   and i. *)
eigh(S) ==
    LET a == Plain(S[1][1])
        b == Plain(S[2][1])
        d == Plain(S[2][2])
        t == QDiv(QAdd(a, d), Whole(2))
        h == QDiv(QSub(a, d), Whole(2))
        r == QAdd(QMul(h, h), QMul(b, b))
    IN  [evals |-> << Ev(t, -1, r), Ev(t, 1, r) >>,
         evecs |-> [i \in 1..2 |-> [j \in 1..2 |->
                       [matrix |-> S, vec |-> j, comp |-> i]]]]

(* jnp.sum(e) over the eigenvalues of one matrix: the roots cancel. *)
EvSum(ev) == QAdd(ev[1].t, ev[2].t)

(* Mutant: a zero sum is replaced by 1. *)
EvDiv_Substituted(e, total) ==
    IF total.n = 0 THEN e
    ELSE Ev(QDiv(e.t, total), e.s * Sign(total.n),
            QDiv(e.r, QMul(total, total)))

(* e / total.  The sum of the eigenvalues of a covariance is zero only when
   each of them is, and 0 / 0 is NaN. *)
EvDiv(e, total) ==
    IF total.n = 0 THEN EvNaN
    ELSE Ev(QDiv(e.t, total), e.s * Sign(total.n),
            QDiv(e.r, QMul(total, total)))

(* lax.cond(PCA, lambda e: e / jnp.sum(e), ...) *)
cond_PCA(flag, ev) ==
    IF flag THEN [k \in 1..Len(ev) |-> EvDiv(ev[k], EvSum(ev))] ELSE ev

(* a < b in the order of the sort, in which NaN is last. *)
EvLess(a, b) ==
    IF IsNaN(a) THEN FALSE
    ELSE IF IsNaN(b) THEN TRUE
    ELSE LET D == QSub(a.t, b.t)
             k == b.s - a.s
             rad == QMul(Whole(k * k), IF a.s /= 0 THEN a.r ELSE b.r)
         IN  IF k = 0 THEN D.n < 0
             ELSE IF k > 0 THEN D.n < 0 \/ QLess(QMul(D, D), rad)
             ELSE D.n < 0 /\ QLess(rad, QMul(D, D))

(* Mutant: equal values in the reverse order of their indices. *)
argsort_LastFirst(ev) ==
    IF EvLess(ev[1], ev[2]) THEN << 1, 2 >> ELSE << 2, 1 >>

(* jnp.argsort(ev): the indices in ascending order of the values, equal
   values in the order of their indices. *)
argsort(ev) == IF EvLess(ev[2], ev[1]) THEN << 2, 1 >> ELSE << 1, 2 >>

(* inds[::-1] *)
flip(inds) == [k \in 1..Len(inds) |-> inds[Len(inds) + 1 - k]]

(* Mutant: the eigenvectors stay where they are. *)
sort_fn_ValuesOnly(ev, evec) ==
    LET sort_inds == flip(argsort(ev))
    IN  << [k \in 1..Len(ev) |-> ev[sort_inds[k]]], evec >>

(* (ev[sort_inds], evec[:, sort_inds]) *)
sort_fn(ev, evec) ==
    LET sort_inds == flip(argsort(ev))
    IN  << [k \in 1..Len(ev) |-> ev[sort_inds[k]]],
           [i \in 1..Len(evec) |->
               [k \in 1..Len(sort_inds) |-> evec[i][sort_inds[k]]]] >>

(* lax.cond(sort, sort_fn, ...) *)
cond_sort(flag, ev, evec) ==
    IF flag THEN sort_fn(ev, evec) ELSE << ev, evec >>

(* Mutant: the rows are eigenvectors whatever the flag. *)
cond_transpose_Always(flag, M) == [i \in 1..2 |-> [j \in 1..2 |-> M[j][i]]]

(* lax.cond(transpose, lambda ev: ev.T, ...) *)
cond_transpose(flag, M) ==
    IF flag THEN [i \in 1..2 |-> [j \in 1..2 |-> M[j][i]]] ELSE M

(* The whole call: the pair (evals, evecs) it returns. *)
coord_eig_decomp(P, rob, cen, pca, srt, tr) ==
    LET S == cond_robust(rob, cond_center(cen, P))
        e == cond_PCA(pca, eigh(S).evals)
        sorted == cond_sort(srt, e, eigh(S).evecs)
    IN  << sorted[1], cond_transpose(tr, sorted[2]) >>

(* A point with its coordinates given in halves. *)
Halves(x) == << Q(x[1], 2), Q(x[2], 2) >>

(* Point sets that are symmetric about their mean: the weighted mean of
   the robust estimator stays at the sample mean and its loop stops after
   one iteration at the default tol. *)
SymmetricSets ==
    { << << 2, 0 >>, << -2, 0 >>, << 0, 1 >>, << 0, -1 >> >>,
      << << 2, 0 >>, << -2, 0 >>, << 4, 0 >>, << -4, 0 >> >>,
      << << 2, 0 >>, << -2, 0 >>, << 0, 2 >>, << 0, -2 >> >>,
      << << 4, 2 >>, << 0, 2 >>, << 2, 4 >>, << 2, 0 >> >>,
      << << 2, 2 >>, << 2, 2 >> >>,
      << << 0, 0 >>, << 2, 2 >>, << 4, 4 >> >>,
      << << 6, 2 >>, << -2, -2 >>, << 2, 2 >>, << 2, -2 >> >>,
      << << 2, 0 >>, << -2, 0 >>, << 0, 2 >>, << 0, -2 >>,
         << 8, 0 >>, << -8, 0 >> >>,
      << << 3, 1 >>, << -1, 1 >>, << 1, 3 >>, << 1, -1 >>,
         << 9, 1 >>, << -7, 1 >> >> }

(* Point sets with an outlier; they go through the classical covariance. *)
SkewSets ==
    { << << 0, 0 >>, << 2, 0 >>, << 0, 2 >>, << 6, 6 >> >>,
      << << 0, 0 >>, << 0, 0 >>, << 2, 1 >> >> }

HalfPoints(xs) == [j \in 1..Len(xs) |-> Halves(xs[j])]

(* Calls of coord_eig_decomp. *)
InitEig ==
    /\ v1 = Arr(1, Batch(1, 1))
    /\ v2 = Arr(1, Batch(1, 1))
    /\ plane_normal = Arr(1, Batch(1, 1))
    /\ use_normal = FALSE
    /\ assume_normalized = FALSE
    /\ to_degree = FALSE
    /\ disable_jit = FALSE
    /\ arr = Arr(1, Batch(1, 1))
    /\ NoCovariance
    /\ robust \in BOOLEAN
    /\ coords \in { HalfPoints(xs) :
                      xs \in IF robust THEN SymmetricSets
                             ELSE SymmetricSets \cup SkewSets }
    /\ center \in BOOLEAN
    /\ PCA \in BOOLEAN
    /\ sort \in BOOLEAN
    /\ transpose \in BOOLEAN
    /\ cov = << >>
    /\ evals = << >>
    /\ evecs = << >>
    /\ op = "none"
    /\ ret = NoResult

Idle == <<GeometryArgs, CovarianceArgs, state, mahal, weights>>

(* Line 396 *)
Center ==
    /\ op = "none"
    /\ coords /= << >>
    /\ op' = "center"
    /\ coords' = cond_center(center, coords)
    /\ UNCHANGED <<Idle, robust, center, PCA, sort, transpose, cov, evals,
                   evecs, ret>>

(* Lines 399-404 *)
Covariance ==
    /\ op = "center"
    /\ op' = "cov"
    /\ cov' = cond_robust(robust, coords)
    /\ UNCHANGED <<Idle, DecompositionArgs, evals, evecs, ret>>

(* Line 407 *)
Eigh ==
    /\ op = "cov"
    /\ op' = "eigh"
    /\ evals' = eigh(cov).evals
    /\ evecs' = eigh(cov).evecs
    /\ UNCHANGED <<Idle, DecompositionArgs, cov, ret>>

(* Line 410 *)
PCANormalise ==
    /\ op = "eigh"
    /\ op' = "PCA"
    /\ evals' = cond_PCA(PCA, evals)
    /\ UNCHANGED <<Idle, DecompositionArgs, cov, evecs, ret>>

(* Lines 413-418 *)
Sort ==
    /\ op = "PCA"
    /\ op' = "sort"
    /\ evals' = cond_sort(sort, evals, evecs)[1]
    /\ evecs' = cond_sort(sort, evals, evecs)[2]
    /\ UNCHANGED <<Idle, DecompositionArgs, cov, ret>>

(* Lines 421-423 *)
Transpose ==
    /\ op = "sort"
    /\ op' = "coord_eig_decomp"
    /\ evecs' = cond_transpose(transpose, evecs)
    /\ ret' = Return(1, << evals, evecs' >>)
    /\ UNCHANGED <<Idle, DecompositionArgs, cov, evals>>

NextEig ==
    Center \/ Covariance \/ Eigh \/ PCANormalise \/ Sort \/ Transpose

SpecEig == InitEig /\ [][NextEig]_vars

(* ======================= properties: shapes ============================ *)
(* Batch sizes after lifting, and the compatibility rule of the shape
   resolver, stated on the caller's arguments. *)
Size(a) == Len(a.rows)

Incompatible(a, b) == Size(a) /= Size(b) /\ Size(a) /= 1 /\ Size(b) /= 1

Largest2(a, b) == IF Size(a) >= Size(b) THEN Size(a) ELSE Size(b)

Largest3(a, b, n) ==
    IF Largest2(a, b) >= Size(n) THEN Largest2(a, b) ELSE Size(n)

(* The row of a that meets row i of the result: a one-row argument meets
   every row. *)
Meets(a, i) == IF Size(a) = 1 THEN a.rows[1] ELSE a.rows[i]

(* r is the rejection of v from f: r = v when f is zero; otherwise r is
   orthogonal to f and v - r is a multiple of f. *)
IsRejection(r, v, f) ==
    IF f.num = << 0, 0, 0 >> THEN r = v
    ELSE /\ Dot(r.num, f.num) = 0
         /\ Cross(Sub(Scale(r.den, v.num), Scale(v.den, r.num)), f.num)
              = << 0, 0, 0 >>

(* C1: reject raises ShapeMismatch, returning nothing, exactly when the two
   batch sizes differ and neither is 1; every other pair succeeds. *)
C1_RejectShapeMismatch ==
    op = "reject" =>
        /\ (ret.status = "ShapeMismatch") <=> Incompatible(v1, v2)
        /\ ret.status = "ShapeMismatch" => ret.val = << >>
        /\ ~Incompatible(v1, v2) => ret.status = "ok"

C1_Witness ==
    /\ op = "reject"
    /\ Size(v1) = 2 /\ Size(v2) = 3
    /\ ret.status = "ShapeMismatch"

(* C2: a successful reject returns a rank-1 vector iff both arguments were
   rank 1; otherwise a batch with as many rows as the larger argument, row
   i being the rejection of v[i] (or the single v) from from_v[i] (or the
   single from_v).  A rank-2 argument with one row is not collapsed. *)
C2_RejectResultShape ==
    (op = "reject" /\ ret.status = "ok") =>
        /\ ret.ndim \in {1, 2}
        /\ (ret.ndim = 1) <=> (v1.ndim = 1 /\ v2.ndim = 1)
        /\ Len(ret.val) = Largest2(v1, v2)
        /\ \A i \in 1..Len(ret.val) :
               IsRejection(ret.val[i], Meets(v1, i), Meets(v2, i))

C2_Witness ==
    /\ op = "reject" /\ ret.status = "ok"
    /\ v1.ndim = 1 /\ v2.ndim = 2 /\ Size(v2) = 3
    /\ ret.ndim = 2 /\ Len(ret.val) = 3
    /\ ret.val[2] /= ret.val[1]

(* C3: angle raises ShapeMismatch, returning nothing, exactly when some
   pair among v1, v2 and the plane normal (when given) has unequal batch
   sizes neither of which is 1. *)
C3_AngleShapeMismatch ==
    op = "angle" =>
        /\ (ret.status = "ShapeMismatch") <=>
               \/ Incompatible(v1, v2)
               \/ use_normal /\ Incompatible(v1, plane_normal)
               \/ use_normal /\ Incompatible(v2, plane_normal)
        /\ ret.status = "ShapeMismatch" => ret.val = << >>

C3_Witness ==
    /\ op = "angle" /\ use_normal
    /\ ~Incompatible(v1, v2)
    /\ Incompatible(v1, plane_normal)
    /\ ret.status = "ShapeMismatch"

(* The angle of one pair of rows as angle computes it. *)
PairAngle(a, b) ==
    LET x == IF assume_normalized THEN RawDot(a, b) ELSE RegularisedCos(a, b)
    IN  IF to_degree THEN degrees(arccos(clip(x))) ELSE arccos(clip(x))

(* C4: without a plane normal a successful angle returns a scalar iff both
   arguments were rank 1; otherwise a 1-D batch as long as the larger
   argument, a one-row argument meeting every row of the other. *)
C4_AngleResultShape ==
    (op = "angle" /\ ~use_normal /\ ret.status = "ok") =>
        /\ ret.ndim \in {0, 1}
        /\ (ret.ndim = 0) <=> (v1.ndim = 1 /\ v2.ndim = 1)
        /\ Len(ret.val) = Largest2(v1, v2)
        /\ \A i \in 1..Len(ret.val) :
               ret.val[i] = PairAngle(Meets(v1, i), Meets(v2, i))

C4_Witness ==
    /\ op = "angle" /\ ~use_normal /\ ret.status = "ok"
    /\ v1.ndim = 1 /\ v2.ndim = 1
    /\ ret.ndim = 0

(* C5: with a plane normal, angle collapses to a scalar only if v1, v2 and
   the plane normal were all rank 1; rank-1 v1 and v2 with a plane normal
   of n > 1 rows give a batch of n angles. *)
C5_AngleCollapseAllArguments ==
    (op = "angle" /\ use_normal) =>
        /\ (ret.status = "ok" /\ ret.ndim = 0) =>
               (v1.ndim = 1 /\ v2.ndim = 1 /\ plane_normal.ndim = 1)
        /\ (v1.ndim = 1 /\ v2.ndim = 1 /\ Size(plane_normal) > 1) =>
               (ret.status = "ok" /\ ret.ndim = 1
                  /\ Len(ret.val) = Size(plane_normal))

(* C6: signed_angle raises ShapeMismatch, returning nothing, exactly when
   some pair among v1, v2 and the plane normal has unequal batch sizes
   neither of which is 1; every other triple is accepted and yields one
   angle per row of the largest batch. *)
C6_SignedAngleShapeMismatch ==
    op = "signed_angle" =>
        LET bad == \/ Incompatible(v1, v2)
                   \/ Incompatible(v1, plane_normal)
                   \/ Incompatible(v2, plane_normal)
        IN  /\ (ret.status = "ShapeMismatch") <=> bad
            /\ ret.status = "ShapeMismatch" => ret.val = << >>
            /\ ~bad => /\ ret.status = "ok"
                       /\ Len(ret.val) = Largest3(v1, v2, plane_normal)

C6_Witness ==
    /\ op = "signed_angle"
    /\ Size(v1) = 1 /\ Size(v2) = 3 /\ Size(plane_normal) = 3
    /\ ret.status = "ok" /\ Len(ret.val) = 3

(* C7: a successful signed_angle returns a scalar iff v1, v2 and the plane
   normal were all rank 1; otherwise a 1-D array as long as the largest
   batch. *)
C7_SignedAngleResultShape ==
    (op = "signed_angle" /\ ret.status = "ok") =>
        /\ ret.ndim \in {0, 1}
        /\ (ret.ndim = 0) <=>
               (v1.ndim = 1 /\ v2.ndim = 1 /\ plane_normal.ndim = 1)
        /\ Len(ret.val) = Largest3(v1, v2, plane_normal)

C7_Witness ==
    /\ op = "signed_angle" /\ ret.status = "ok"
    /\ v1.ndim = 1 /\ v2.ndim = 1 /\ plane_normal.ndim = 2
    /\ ret.ndim = 1 /\ Len(ret.val) = Size(plane_normal)

(* ======================= properties: values ============================ *)
(* The values below are those of calls on single vectors: the one element
   of the result. *)
One(r) == r.val[1]

Vector(a) == a.rows[1].num

Negated(a) == Arr(a.ndim, << Vec(Scale(-1, Vector(a))) >>)

(* -a, as a number. *)
Neg(a) == [sgn |-> IF a.c.s = 1 /\ a.c.p = a.c.q THEN 1 ELSE -a.sgn,
           c |-> a.c, unit |-> a.unit]

Unit == IF to_degree THEN "deg" ELSE "rad"

(* The numbers 0, pi / 2 and pi (0, 90 and 180 in degrees). *)
Zero == [sgn |-> 1, c |-> [s |-> 1, p |-> 1, q |-> 1], unit |-> Unit]

HalfPi == [sgn |-> 1, c |-> [s |-> 0, p |-> 0, q |-> 1], unit |-> Unit]

Pi == [sgn |-> 1, c |-> [s |-> -1, p |-> 1, q |-> 1], unit |-> Unit]

(* dot(cross(v1, v2), n) on the caller's vectors. *)
Orientation ==
    Dot(Cross(Vector(v1), Vector(v2)), Vector(plane_normal))

(* The unsigned angle between the projections of v1 and v2 onto the plane
   of n, in the requested unit. *)
ProjectedAngle ==
    LET a == arccos(clip(RegularisedCos(
                 RejectRow(v1.rows[1], plane_normal.rows[1]),
                 RejectRow(v2.rows[1], plane_normal.rows[1]))))
    IN  IF to_degree THEN degrees(a) ELSE a

(* The projection of v onto the plane of n is the zero vector: v is a
   multiple of n (with no plane, n = 0, only the zero vector is). *)
ProjectsToZero(v, n) ==
    IF Vector(n) = << 0, 0, 0 >> THEN Vector(v) = << 0, 0, 0 >>
    ELSE Cross(Vector(v), Vector(n)) = << 0, 0, 0 >>

SignedAngleReturned == op = "signed_angle" /\ ret.status = "ok"

(* The parts of C8 on which the claim and its amendment agree: the result
   is s times the unsigned angle between the projections, s = +1 when
   dot(cross(v1, v2), n) >= 0 and -1 when it is < 0, and reversing n
   negates the result whenever that dot product is not zero. *)
SignConvention ==
    /\ One(ret) = IF Orientation >= 0 THEN ProjectedAngle
                  ELSE Neg(ProjectedAngle)
    /\ Orientation /= 0 =>
           One(signed_angle(v1, v2, Negated(plane_normal), to_degree))
             = Neg(One(ret))

(* C8 as stated: the sign convention, and signed_angle(v, v, n) = 0 and
   signed_angle(v, -v, n) = +pi for every v. *)
C8_Original ==
    SignedAngleReturned =>
        /\ SignConvention
        /\ v2 = v1 => One(ret) = Zero
        /\ v2 = Negated(v1) => One(ret) = Pi

(* C8 as amended: the sign convention; signed_angle(v, v, n) = 0 and
   signed_angle(v, -v, n) = +pi for every v whose projection onto the plane
   of n is not the zero vector, and both are +pi / 2 when it is. *)
C8_SignedAngleSign ==
    SignedAngleReturned =>
        /\ SignConvention
        /\ (v2 = v1 /\ ~ProjectsToZero(v1, plane_normal)) => One(ret) = Zero
        /\ (v2 = Negated(v1) /\ ~ProjectsToZero(v1, plane_normal)) =>
               One(ret) = Pi
        /\ ((v2 = v1 \/ v2 = Negated(v1)) /\ ProjectsToZero(v1, plane_normal))
               => One(ret) = HalfPi

C8_Witness ==
    /\ SignedAngleReturned
    /\ v2 = Negated(v1)
    /\ ~ProjectsToZero(v1, plane_normal)
    /\ Vector(plane_normal) /= << 0, 0, 0 >>
    /\ One(ret) = Pi

(* C9: when dot(cross(v1, v2), n) is not zero, signed_angle(v1, v2, n) is
   -signed_angle(v2, v1, n); antisymmetry fails only where that dot product
   is zero, and there both orders return the same non-negative value. *)
C9_SignedAngleAntisymmetry ==
    SignedAngleReturned =>
        LET swapped == One(signed_angle(v2, v1, plane_normal, to_degree))
        IN  /\ Orientation /= 0 => One(ret) = Neg(swapped)
            /\ One(ret) /= Neg(swapped) => Orientation = 0
            /\ Orientation = 0 => (One(ret) = swapped /\ One(ret).sgn = 1)

C9_Witness ==
    /\ SignedAngleReturned
    /\ Orientation < 0
    /\ One(ret).sgn = -1
    /\ One(signed_angle(v2, v1, plane_normal, to_degree)).sgn = 1

(* |a| <= pi / 2 as numbers; a value in degrees is 180 / pi times its
   angle, so it is within pi / 2 only for an angle of at most pi^2 / 360
   radians, whose squared cosine is 0.99924857... *)
WithinHalfPi(a) ==
    IF a.unit = "rad" THEN a.c.s >= 0
    ELSE a.c.s = 1 /\ a.c.p * 100000000 >= 99924858 * a.c.q

(* |a| <= 90 as numbers; a value in radians never exceeds pi. *)
Within90(a) == a.unit = "deg" => a.c.s >= 0

(* C10: every element minimal_line_signed_angle returns lies in
   [-pi / 2, pi / 2] when to_degree is false and in [-90, 90] when it is
   true, whatever signed angle (up to pi) it was folded from. *)
C10_MinimalLineRange ==
    (op = "minimal_line_signed_angle" /\ ret.status = "ok") =>
        \A i \in 1..Len(ret.val) :
            IF to_degree THEN ret.val[i].unit = "deg" /\ Within90(ret.val[i])
            ELSE ret.val[i].unit = "rad" /\ WithinHalfPi(ret.val[i])

C10_Witness ==
    /\ op = "minimal_line_signed_angle" /\ ret.status = "ok"
    /\ One(signed_angle(v1, v2, plane_normal, FALSE)).c
         = [s |-> -1, p |-> 1, q |-> 1]
    /\ One(ret) = Zero

(* The signed angle in radians that the call folds, whatever to_degree. *)
SignedRadians == One(signed_angle(v1, v2, plane_normal, FALSE))

(* The number a (radians) in the requested unit. *)
InUnit(a) == [sgn |-> a.sgn, c |-> a.c, unit |-> Unit]

(* a - sign(a) * pi for pi / 2 < |a| <= pi: magnitude pi - |a|, whose
   cosine is the negated cosine of |a|, on the other side of zero. *)
LessSignPi(a) ==
    [sgn |-> IF a.c.p = a.c.q THEN 1 ELSE -a.sgn,
     c |-> [s |-> 1, p |-> a.c.p, q |-> a.c.q],
     unit |-> a.unit]

(* C11: minimal_line_signed_angle folds a = signed_angle(v1, v2, n) taken
   in radians whatever to_degree: a is returned unchanged when
   |a| <= pi / 2 (perpendicular lines give +-pi / 2 with the sign of a,
   parallel lines give 0) and a - sign(a) * pi when |a| > pi / 2; the
   conversion to degrees follows the fold, so perpendicular lines give 90
   with to_degree true. *)
C11_MinimalLineFold ==
    (op = "minimal_line_signed_angle" /\ ret.status = "ok") =>
        LET a == SignedRadians
        IN  /\ a.unit = "rad"
            /\ a.c.s >= 0 => One(ret) = InUnit(a)
            /\ a.c.s < 0 => One(ret) = InUnit(LessSignPi(a))
            /\ a.c.s = 0 => (One(ret).c = HalfPi.c /\ One(ret).sgn = a.sgn)
            /\ (a.c.s = 0 /\ to_degree) =>
                   (One(ret).unit = "deg" /\ One(ret).c.s = 0)
            /\ a = [sgn |-> 1, c |-> Zero.c, unit |-> "rad"] =>
                   One(ret) = Zero

C11_Witness ==
    /\ op = "minimal_line_signed_angle" /\ ret.status = "ok"
    /\ to_degree
    /\ SignedRadians.c.s = 0 /\ SignedRadians.sgn = -1
    /\ One(ret) = [sgn |-> -1, c |-> HalfPi.c, unit |-> "deg"]

(* ================== properties: leaf primitives, distance ============== *)
(* sqrt(d.p / d.q) is the Euclidean distance between the rows a and b. *)
IsDistance(d, a, b) ==
    LET diff == Sub(Scale(b.den, a.num), Scale(a.den, b.num))
    IN  /\ d.q > 0
        /\ d.p * (a.den * b.den) * (a.den * b.den) = d.q * Dot(diff, diff)

DistanceCalled == op = "pairwise_euclidean"

(* C12: pairwise_euclidean never fails: for incompatible batch sizes
   (unequal, neither 1) it returns NaNs, as many as the larger batch has
   rows; for compatible sizes it returns one Euclidean distance per row of
   the larger batch. *)
C12_DistanceIncompatibleNaN ==
    DistanceCalled =>
        /\ ret.status = "ok"
        /\ Len(ret.val) = Largest2(v1, v2)
        /\ Incompatible(v1, v2) =>
               \A i \in 1..Len(ret.val) : ret.val[i] = [p |-> 0, q |-> 0]
        /\ ~Incompatible(v1, v2) =>
               \A i \in 1..Len(ret.val) :
                   IsDistance(ret.val[i], Meets(v1, i), Meets(v2, i))

(* C13: for compatible shapes pairwise_euclidean(a, b) is
   pairwise_euclidean(b, a); a single point against n points gives the
   same n distances whichever argument holds the single point. *)
C13_DistanceSymmetric ==
    (DistanceCalled /\ ~Incompatible(v1, v2)) =>
        /\ ret.status = "ok"
        /\ pairwise_euclidean(v2, v1).status = "ok"
        /\ ret.val = pairwise_euclidean(v2, v1).val
        /\ Len(ret.val) = Largest2(v1, v2)

C13_Witness ==
    /\ DistanceCalled /\ ret.status = "ok"
    /\ Size(v1) = 1 /\ Size(v2) = 3
    /\ Len(ret.val) = 3
    /\ ret.val[1] /= ret.val[2]
    /\ ret.val = pairwise_euclidean(v2, v1).val

(* C14 as stated: the result of pairwise_euclidean is a scalar when both
   arguments were passed as rank-1 single points, and a batch only when at
   least one argument was passed as a batch. *)
C14_Original ==
    (DistanceCalled /\ ret.status = "ok") =>
        /\ ret.ndim \in {0, 1}
        /\ (ret.ndim = 0) <=> (v1.ndim = 1 /\ v2.ndim = 1)

(* C14 as amended: the result of pairwise_euclidean is always a rank-1
   batch with one distance per row of the larger lifted argument; two
   rank-1 single points give a batch of one distance, not a scalar. *)
C14_DistanceAlwaysBatch ==
    (DistanceCalled /\ ret.status = "ok") =>
        /\ ret.ndim = 1
        /\ Len(ret.val) = Largest2(v1, v2)
        /\ (v1.ndim = 1 /\ v2.ndim = 1) => Len(ret.val) = 1

C14_Witness ==
    /\ DistanceCalled /\ ret.status = "ok"
    /\ v1.ndim = 1 /\ v2.ndim = 1
    /\ ret.ndim = 1 /\ Len(ret.val) = 1

(* C15: for an input of rank other than 1 or 2, magnitude returns one
   scalar NaN and does not raise, while normalise fails its assertion and
   returns nothing; for rank 1 or 2 neither raises, magnitude returns one
   norm per vector and normalise an array of the input's shape. *)
C15_LeafRankPolicy ==
    /\ (op = "magnitude" /\ arr.ndim \notin {1, 2}) =>
           ret = [status |-> "ok", ndim |-> 0, val |-> << [p |-> 0, q |-> 0] >>]
    /\ (op = "magnitude" /\ arr.ndim \in {1, 2}) =>
           /\ ret.status = "ok"
           /\ ret.ndim = arr.ndim - 1
           /\ Len(ret.val) = Size(arr)
           /\ \A i \in 1..Len(ret.val) :
                  IsDistance(ret.val[i], arr.rows[i], [num |-> << 0, 0, 0 >>, den |-> 1])
    /\ (op = "normalise" /\ arr.ndim \notin {1, 2}) =>
           (ret.status = "AssertionError" /\ ret.val = << >>)
    /\ (op = "normalise" /\ arr.ndim \in {1, 2}) =>
           /\ ret.status = "ok"
           /\ ret.ndim = arr.ndim
           /\ Len(ret.val) = Size(arr)

C15_Witness ==
    /\ op = "normalise"
    /\ arr.ndim = 3 /\ Size(arr) = 2
    /\ ret.status = "AssertionError"

(* ===================== properties: rejection values ==================== *)
(* dot(r, f) = 0 *)
Orthogonal(r, f) == Dot(r.num, f.num) = 0

(* v - r is a multiple of f: their cross product vanishes. *)
DiffersByMultiple(v, r, f) ==
    Cross(Sub(Scale(r.den, v.num), Scale(v.den, r.num)), f.num)
      = << 0, 0, 0 >>

(* C16: for every v and every non-zero from_v, each row r of
   reject(v, from_v) is orthogonal to its row of from_v and v - r is a
   multiple of that row; reject([3,4,0], [0,1,0]) is [3,0,0]. *)
C16_RejectOrthogonal ==
    /\ (op = "reject" /\ ret.status = "ok") =>
           \A i \in 1..Len(ret.val) :
               Meets(v2, i).num /= << 0, 0, 0 >> =>
                   /\ Orthogonal(ret.val[i], Meets(v2, i))
                   /\ DiffersByMultiple(Meets(v1, i), ret.val[i], Meets(v2, i))
    /\ reject(Arr(1, << Vec(<< 3, 4, 0 >>) >>), Arr(1, << Vec(<< 0, 1, 0 >>) >>))
         = [status |-> "ok", ndim |-> 1,
            val |-> << [num |-> << 3, 0, 0 >>, den |-> 1] >>]

C16_Witness ==
    /\ op = "reject" /\ ret.status = "ok"
    /\ Vector(v1) = << 1, 0, 1 >> /\ Vector(v2) = << 1, 1, 0 >>
    /\ One(ret) = [num |-> << 1, -1, 2 >>, den |-> 2]

(* ================== properties: robust_covariance_mest ================= *)
InLoop == op = "while_loop"

CovarianceReturned == op = "robust_covariance_mest"

RECURSIVE ISum(_)
ISum(xs) == IF xs = << >> THEN 0 ELSE Head(xs) + ISum(Tail(xs))

(* Coordinate a of the points of X, and the products of coordinates a and
   b. *)
Column(a) == [j \in 1..Len(X) |-> X[j][a]]

Products(a, b) == [j \in 1..Len(X) |-> X[j][a] * X[j][b]]

(* S is the biased sample covariance of X, with nothing added: entry
   (a, b) is (n * sum(x_a * x_b) - sum(x_a) * sum(x_b)) / n^2. *)
IsBiasedSampleCovariance(S) ==
    \A a \in 1..2, b \in 1..2 :
        /\ S[a][b].e = 0
        /\ S[a][b].n * Len(X) * Len(X)
             = S[a][b].d * (Len(X) * ISum(Products(a, b))
                              - ISum(Column(a)) * ISum(Column(b)))

(* What holds at every state of a call for C17. *)
WithinCap ==
    /\ (InLoop \/ CovarianceReturned) => state.i <= max_iter
    /\ CovarianceReturned =>
           /\ ret.status = "ok"
           /\ ret.val = state.sigma
    /\ (CovarianceReturned /\ max_iter = 0) =>
           /\ state.i = 0
           /\ mahal = << >> /\ weights = << >>
           /\ IsBiasedSampleCovariance(ret.val)

(* C17: robust_covariance_mest always terminates: for every point set and
   every max_iter >= 0 the loop runs at most max_iter iterations and the
   current covariance estimate is then returned; reaching the cap without
   convergence raises nothing, and with max_iter = 0 the body never runs
   and the initial biased sample covariance is returned. *)
C17_Terminates == [](WithinCap) /\ <>(CovarianceReturned)

C17_Witness ==
    /\ CovarianceReturned
    /\ max_iter = 2 /\ state.i = 2 /\ ~state.converged
    /\ ret.status = "ok" /\ ret.val = state.sigma

(* The shift of the mean from m to m2 is strictly below tol. *)
ShiftStrictlyBelowTol(m, m2) ==
    LET dx == QSub(m2[1], m[1])
        dy == QSub(m2[2], m[2])
        sq == QAdd(QMul(dx, dx), QMul(dy, dy))
    IN  /\ tol.n > 0
        /\ sq.n * tol.d * tol.d < tol.n * tol.n * sq.d

(* A step of the loop that runs an iteration. *)
IterationStep == InLoop /\ op' = "while_loop"

(* C18: the iteration counter rises by exactly 1 per iteration; an
   iteration runs only if the counter is below max_iter and the previous
   iteration's mean shift was not strictly below tol; the convergence flag
   is set once per iteration, from that iteration's shift; the loop ends
   only at the cap or after the first converged iteration, so the number
   of iterations is min(max_iter, index of the first converged one). *)
C18_StopRule ==
    /\ [][IterationStep =>
            /\ state'.i = state.i + 1
            /\ state.i < max_iter
            /\ ~state.converged
            /\ state'.converged <=> ShiftStrictlyBelowTol(state.mu, state'.mu)
         ]_vars
    /\ [](/\ InLoop => (state.converged => state.i >= 1)
          /\ CovarianceReturned => (state.i = max_iter \/ state.converged)
          /\ CovarianceReturned => state.i <= max_iter)

C18_Witness ==
    /\ CovarianceReturned
    /\ max_iter = 2 /\ state.i = 1 /\ state.converged
    /\ state.mu /= << Q(ISum(Column(1)), Len(X)), Q(ISum(Column(2)), Len(X)) >>

(* The square of the tuning constant. *)
CSquared == Q(c.n * c.n, c.d * c.d)

(* Sum over the points of weight times f(point). *)
WeightedSum(f(_)) == QSum([j \in 1..Len(X) |-> QMul(weights[j], f(j))])

(* Deviation of coordinate a of point j from the current mean. *)
Deviation(j, a) == QSub(Whole(X[j][a]), state.mu[a])

(* C19: in every iteration a point whose squared Mahalanobis distance is
   below c^2 gets weight exactly 1 and any other point c^2 divided by that
   distance; so every weight lies in (0, 1] and a point at exactly c^2 has
   weight 1; the new mean and covariance are the sums of weight * point
   and of weight * outer product of the deviations from the new mean,
   divided by the sum of the weights. *)
C19_HuberWeights ==
    ((InLoop \/ CovarianceReturned) /\ state.i >= 1) =>
        /\ Len(mahal) = Len(X) /\ Len(weights) = Len(X)
        /\ \A j \in 1..Len(X) :
               /\ QLess(mahal[j], CSquared) => weights[j] = Whole(1)
               /\ ~QLess(mahal[j], CSquared) =>
                      QMul(weights[j], mahal[j]) = CSquared
               /\ mahal[j] = CSquared => weights[j] = Whole(1)
               /\ weights[j].n > 0 /\ weights[j].n <= weights[j].d
        /\ \A a \in 1..2 :
               QMul(state.mu[a], QSum(weights))
                 = WeightedSum(LAMBDA j : Whole(X[j][a]))
        /\ \A a \in 1..2, b \in 1..2 :
               QMul(Plain(state.sigma[a][b]), QSum(weights))
                 = WeightedSum(LAMBDA j :
                                   QMul(Deviation(j, a), Deviation(j, b)))

C19_Witness ==
    /\ InLoop /\ state.i = 1
    /\ X = << << 0, 0 >>, << 1, 0 >>, << 2, 0 >>, << 3, 0 >> >>
    /\ c = Q(1, 1)
    /\ mahal = << Q(9, 5), Q(1, 5), Q(1, 5), Q(9, 5) >>
    /\ weights = << Q(5, 9), Q(1, 1), Q(1, 1), Q(5, 9) >>

(* No entry of S carries a 1e-6 part. *)
Unregularised(S) == \A a \in 1..2, b \in 1..2 : S[a][b].e = 0

(* C20: the 1e-6 * I regulariser only serves the inverse: the covariance
   carried between iterations and the returned matrix never contain it;
   the returned matrix is the last weighted covariance, or the initial
   biased sample covariance when no iteration ran. *)
C20_RegulariserNotReturned ==
    /\ (InLoop \/ CovarianceReturned) => Unregularised(state.sigma)
    /\ CovarianceReturned =>
           /\ Len(ret.val) = 2
           /\ Unregularised(ret.val)
           /\ state.i = 0 => IsBiasedSampleCovariance(ret.val)
           /\ state.i >= 1 =>
                  \A a \in 1..2, b \in 1..2 :
                      QMul(Plain(ret.val[a][b]), QSum(weights))
                        = WeightedSum(LAMBDA j :
                              QMul(Deviation(j, a), Deviation(j, b)))

C20_Witness ==
    /\ CovarianceReturned /\ state.i = 2
    /\ X = << << 0, 0 >>, << 1, 0 >>, << 2, 0 >>, << 3, 0 >> >>
    /\ ret.val[2][2] = [n |-> 0, d |-> 1, e |-> 0]
    /\ ret.val[1][1].n > 0 /\ ret.val[1][1].e = 0

(* Column a of X holds one value only. *)
ConstantColumn(a) == \A j \in 1..Len(X) : X[j][a] = X[1][a]

(* S equals its transpose. *)
Symmetric(S) == \A a \in 1..2, b \in 1..2 : S[a][b] = S[b][a]

(* Row a and column a of S are zero. *)
ZeroRowAndColumn(S, a) ==
    \A b \in 1..2 : S[a][b].n = 0 /\ S[b][a].n = 0

(* C21: the covariance the loop holds before and after every iteration,
   and the matrix returned, is symmetric; when a column of the data is
   constant, its row and column of that matrix are zero throughout,
   whatever the weights. *)
C21_SymmetricZeroVariance ==
    /\ (InLoop \/ CovarianceReturned) =>
           /\ Symmetric(state.sigma)
           /\ \A a \in 1..2 :
                  ConstantColumn(a) => ZeroRowAndColumn(state.sigma, a)
    /\ CovarianceReturned =>
           /\ Symmetric(ret.val)
           /\ \A a \in 1..2 :
                  ConstantColumn(a) => ZeroRowAndColumn(ret.val, a)

C21_Witness ==
    /\ CovarianceReturned /\ state.i = 1
    /\ X = << << 1, 0 >>, << 1, 1 >>, << 1, 2 >>, << 1, 3 >> >>
    /\ weights = << Q(5, 9), Q(1, 1), Q(1, 1), Q(5, 9) >>
    /\ ret.val[1][1].n = 0 /\ ret.val[1][2].n = 0 /\ ret.val[2][1].n = 0
    /\ ret.val[2][2].n > 0

(* The squared Mahalanobis distances of the points under the classical
   estimate the loop starts from. *)
InitialDistances == BodyMahal(Points, state0(Points))

NoneDownWeighted ==
    \A j \in 1..Len(X) : QLess(InitialDistances[j], CSquared)

(* One iteration that changed nothing was run and the classical estimate
   is returned. *)
FixedPointAfterOne ==
    /\ state.i = 1 /\ state.converged
    /\ \A j \in 1..Len(X) : weights[j] = Whole(1)
    /\ IsBiasedSampleCovariance(ret.val)

(* C28 as stated: when no point is down-weighted under the classical
   estimate and tol > 0, exactly one iteration is executed and the biased
   sample covariance is returned; with tol <= 0 exactly max_iter
   iterations are executed. *)
C28_Original ==
    CovarianceReturned =>
        /\ (NoneDownWeighted /\ tol.n > 0) => FixedPointAfterOne
        /\ tol.n <= 0 => state.i = max_iter

(* C28 as amended: when no point is down-weighted under the classical
   estimate and tol > 0, the biased sample covariance is returned after
   exactly one iteration if max_iter >= 1 and after none if max_iter = 0;
   with tol <= 0 exactly max_iter iterations are executed. *)
C28_ClassicalFixedPoint ==
    CovarianceReturned =>
        /\ (NoneDownWeighted /\ tol.n > 0 /\ max_iter >= 1) =>
               FixedPointAfterOne
        /\ (NoneDownWeighted /\ tol.n > 0 /\ max_iter = 0) =>
               (state.i = 0 /\ IsBiasedSampleCovariance(ret.val))
        /\ tol.n <= 0 => state.i = max_iter

C28_Witness ==
    /\ CovarianceReturned
    /\ NoneDownWeighted /\ tol = Q(1, 8) /\ max_iter = 2
    /\ Len(X) = 4 /\ ~ConstantColumn(1) /\ ~ConstantColumn(2)
    /\ state.i = 1 /\ state.converged
    /\ IsBiasedSampleCovariance(ret.val)

(* ================ properties: undirected-line invariance =============== *)
MinimalLineReturned == op = "minimal_line_signed_angle" /\ ret.status = "ok"

(* The projections of v1 and v2 onto the plane of the normal. *)
Projected1 == RejectRow(v1.rows[1], plane_normal.rows[1]).num

Projected2 == RejectRow(v2.rows[1], plane_normal.rows[1]).num

Collinear == Cross(Projected1, Projected2) = << 0, 0, 0 >>

Perpendicular == Dot(Projected1, Projected2) = 0

(* The same call with v2 reversed. *)
Reversed ==
    One(minimal_line_signed_angle(v1, Negated(v2), plane_normal, to_degree))

(* C29 as stated: minimal_line_signed_angle(v1, v2, n) equals
   minimal_line_signed_angle(v1, -v2, n) whenever the projected vectors
   are neither collinear nor perpendicular; for collinear projections both
   calls return 0; the calls differ only at exact perpendicularity, where
   they are +pi / 2 and -pi / 2. *)
C29_Original ==
    MinimalLineReturned =>
        /\ (~Collinear /\ ~Perpendicular) => One(ret) = Reversed
        /\ Collinear => (One(ret) = Zero /\ Reversed = Zero)
        /\ One(ret) /= Reversed => Perpendicular
        /\ (Perpendicular /\ ~Collinear) =>
               /\ One(ret).c = HalfPi.c /\ Reversed.c = HalfPi.c
               /\ One(ret).sgn = -Reversed.sgn

(* A projection is the zero vector. *)
SomeProjectionZero ==
    Projected1 = << 0, 0, 0 >> \/ Projected2 = << 0, 0, 0 >>

NoPlane == Vector(plane_normal) = << 0, 0, 0 >>

(* C29 as amended: for a non-zero n and non-zero projections the calls
   with v2 and with -v2 agree unless the projections are perpendicular,
   where they are +pi / 2 and -pi / 2, and both are 0 for collinear
   projections; when a projection is the zero vector both calls return
   +pi / 2; when n is the zero vector the sign is always +1, so the two
   calls return opposite values unless v1 and v2 are collinear (both 0) or
   perpendicular (both +pi / 2). *)
C29_UndirectedLine ==
    MinimalLineReturned =>
        LET out == One(ret)
            rev == Reversed
            zero == SomeProjectionZero
        IN  /\ zero => (out = HalfPi /\ rev = HalfPi)
            /\ (~zero /\ Collinear) => (out = Zero /\ rev = Zero)
            /\ (~zero /\ ~NoPlane /\ ~Collinear /\ ~Perpendicular)
                   => out = rev
            /\ (~zero /\ ~NoPlane /\ Perpendicular) =>
                   /\ out.c = HalfPi.c /\ rev.c = HalfPi.c
                   /\ out.sgn = -rev.sgn
            /\ (~zero /\ NoPlane /\ Perpendicular) =>
                   (out = HalfPi /\ rev = HalfPi)
            /\ (~zero /\ NoPlane /\ ~Collinear /\ ~Perpendicular)
                   => (rev = Neg(out) /\ rev /= out)

C29_Witness ==
    /\ MinimalLineReturned
    /\ ~NoPlane /\ ~Collinear /\ ~Perpendicular
    /\ One(signed_angle(v1, v2, plane_normal, FALSE)).c.s = -1
    /\ One(ret).sgn = -1
    /\ One(ret) = Reversed

(* ============ properties: the two definitions of signed_angle ========== *)
(* What the shadowed definition does on the arguments of the call. *)
FirstDefinition ==
    signed_angle_first(v1, v2, plane_normal, to_degree, disable_jit)

(* C30: the two definitions of signed_angle agree on shape resolution:
   on every triple of batch sizes either both raise ShapeMismatch or both
   accept, and when both accept their results have the same batch size and
   the same singleton or batch form. *)
C30_SignedAngleDefinitionsAgree ==
    op = "signed_angle" =>
        /\ (ret.status = "ShapeMismatch") <=>
               (FirstDefinition.status = "ShapeMismatch")
        /\ (ret.status = "ok") <=> (FirstDefinition.status = "ok")
        /\ (ret.status = "ok" /\ FirstDefinition.status = "ok") =>
               /\ Len(ret.val) = Len(FirstDefinition.val)
               /\ ret.ndim = FirstDefinition.ndim

(* ================= properties: angle on degenerate geometry ============ *)
(* The call collapses a traced array with .item(): both arguments rank 1
   under jit.  It fails whatever the vectors are. *)
CollapsesTraced == ~disable_jit /\ v1.ndim = 1 /\ v2.ndim = 1

(* x is a number of [0, pi] ([0, 180]) in the unit asked for. *)
WithinPi(x) == x.sgn = 1 /\ x.c.p <= x.c.q /\ x.unit = Unit

(* v is the zero vector, or the plane normal is given and v is rejected to
   the zero vector. *)
Vanishes(v) ==
    \/ Vector(v) = << 0, 0, 0 >>
    \/ use_normal /\ ProjectsToZero(v, plane_normal)

(* C26: angle does not raise on degenerate geometry and its result is in
   [0, pi] ([0, 180] in degrees): the cosine is clamped before arccos in
   both modes, non-unit vectors under assume_normalized included, and when
   v1 or v2 is the zero vector or is rejected to zero by the plane normal
   the result is pi / 2. *)
C26_AngleDegenerateGeometry ==
    op = "angle" =>
        /\ (ret.status = "ok") <=> ~CollapsesTraced
        /\ ret.status = "ok" =>
              /\ Len(ret.val) = 1
              /\ WithinPi(One(ret))
              /\ (Vanishes(v1) \/ Vanishes(v2)) => One(ret) = HalfPi

(* A vector parallel to a non-zero plane normal is rejected to zero and the
   angle is pi / 2. *)
C26_Witness ==
    /\ op = "angle"
    /\ ret.status = "ok"
    /\ use_normal
    /\ ~assume_normalized
    /\ Vector(v1) = << -2, -2, -2 >>
    /\ Vector(plane_normal) = << 1, 1, 1 >>
    /\ Vector(v2) = << 1, 0, 0 >>
    /\ One(ret) = HalfPi

(* ====================== properties: coord_eig_decomp =================== *)
EigenReturned == op = "coord_eig_decomp"

(* The stages in the order in which a call goes through them. *)
StageOrder ==
    { << "none", "center" >>, << "center", "cov" >>, << "cov", "eigh" >>,
      << "eigh", "PCA" >>, << "PCA", "sort" >>,
      << "sort", "coord_eig_decomp" >> }

(* P moved so that its mean is the origin. *)
IsCentringOf(D, P) ==
    /\ Len(D) = Len(P)
    /\ Mean(D) = << Whole(0), Whole(0) >>
    /\ \A j \in 1..Len(P), k \in 1..2 :
           QSub(D[j][k], D[1][k]) = QSub(P[j][k], P[1][k])

(* The eigenvector the solver returned in its column j, for the matrix in
   cov. *)
SolverVector(j) == [i \in 1..2 |-> eigh(cov).evecs[i][j]]

(* What one step of a call does to the locals. *)
StageStep ==
    /\ << op, op' >> \in StageOrder
    /\ << robust, center, PCA, sort, transpose >>'
           = << robust, center, PCA, sort, transpose >>
    /\ op = "none" =>
           /\ IF center THEN IsCentringOf(coords', coords)
                        ELSE coords' = coords
           /\ UNCHANGED << cov, evals, evecs >>
    /\ op = "center" =>
           /\ cov' = IF robust
                     THEN robust_covariance_mest(coords, DefaultC,
                                                 DefaultTol, DefaultMaxIter)
                     ELSE BiasedCov(coords)
           /\ UNCHANGED << coords, evals, evecs >>
    /\ op = "cov" =>
           /\ evals' = eigh(cov).evals
           /\ ~EvLess(evals'[2], evals'[1])
           /\ \A i \in 1..2, j \in 1..2 : evecs'[i][j] = SolverVector(j)[i]
           /\ UNCHANGED << coords, cov >>
    /\ op = "eigh" =>
           /\ IF PCA
              THEN \A k \in 1..2 : evals'[k] = EvDiv(evals[k], EvSum(evals))
              ELSE evals' = evals
           /\ UNCHANGED << coords, cov, evecs >>
    /\ op = "PCA" =>
           /\ IF sort
              THEN ~EvLess(evals'[1], evals'[2]) \/ IsNaN(evals'[2])
              ELSE UNCHANGED << evals, evecs >>
           /\ UNCHANGED << coords, cov >>
    /\ op = "sort" =>
           /\ IF transpose
              THEN \A i \in 1..2, j \in 1..2 : evecs'[i][j] = evecs[j][i]
              ELSE evecs' = evecs
           /\ UNCHANGED << coords, cov, evals >>

(* What a false flag means for the values returned. *)
FalseFlags ==
    EigenReturned =>
        /\ ~sort =>
               /\ ~EvLess(evals[2], evals[1])
               /\ \A k \in 1..2 :
                      evals[k] = cond_PCA(PCA, eigh(cov).evals)[k]
               /\ \A k \in 1..2 :
                      SolverVector(k) =
                          [i \in 1..2 |-> IF transpose THEN evecs[k][i]
                                          ELSE evecs[i][k]]
        /\ ~transpose =>
               \A k \in 1..2 : \E j \in 1..2 :
                   [i \in 1..2 |-> evecs[i][k]] = SolverVector(j)
        /\ ~PCA =>
               { evals[k] : k \in 1..2 }
                   = { eigh(cov).evals[k] : k \in 1..2 }

(* C22: coord_eig_decomp applies its stages in the fixed order center,
   covariance (robust estimator if robust, else biased sample covariance),
   eigendecomposition, PCA normalisation, sort, transpose; each of center,
   PCA, sort and transpose is gated by its own flag alone, and a stage whose
   flag is false leaves its input unchanged: sort false returns the
   solver's ascending order, transpose false one eigenvector per column,
   PCA false the raw eigenvalues. *)
C22_StagesInOrder == [][StageStep]_vars /\ []FalseFlags

(* A call with every flag false has returned the solver's output as it
   was. *)
C22_Witness ==
    /\ EigenReturned
    /\ ~robust /\ ~center /\ ~PCA /\ ~sort /\ ~transpose
    /\ coords = HalfPoints(<< << 6, 2 >>, << -2, -2 >>, << 2, 2 >>,
                              << 2, -2 >> >>)
    /\ evals = << Ev(Q(3, 2), -1, Q(5, 4)), Ev(Q(3, 2), 1, Q(5, 4)) >>
    /\ evecs = eigh(cov).evecs

(* The k-th eigenvector returned: row k of evecs when transpose is set,
   column k otherwise. *)
ReturnedVector(k) ==
    [i \in 1..2 |-> IF transpose THEN evecs[k][i] ELSE evecs[i][k]]

(* The eigenvalue of the solver's column j as the call returns it. *)
SolverValue(j) == cond_PCA(PCA, eigh(cov).evals)[j]

(* e is the rational number q. *)
IsRational(e, q) ==
    /\ ~IsNaN(e)
    /\ Sign(QSub(q, e.t).n) = e.s
    /\ QMul(QSub(q, e.t), QSub(q, e.t)) = e.r

(* C23: with sort set the returned eigenvalues are in non-increasing order
   and the eigenvectors are permuted by the same permutation: under every
   flag combination the k-th returned eigenvalue belongs to the k-th
   returned eigenvector (row k when transpose is set, column k otherwise),
   and the returned pairs are the solver's pairs. *)
C23_SortedPairs ==
    EigenReturned =>
        /\ sort => ~EvLess(evals[1], evals[2])
        /\ \A k \in 1..2 : \E j \in 1..2 :
               /\ ReturnedVector(k) = SolverVector(j)
               /\ evals[k] = SolverValue(j)
        /\ { << evals[k], ReturnedVector(k) >> : k \in 1..2 }
               = { << SolverValue(j), SolverVector(j) >> : j \in 1..2 }

(* The cross of the tests, sorted: 0.8 first with the solver's second
   eigenvector in row 1. *)
C23_Witness ==
    /\ EigenReturned
    /\ sort /\ transpose /\ PCA /\ ~robust
    /\ coords = HalfPoints(<< << 2, 0 >>, << -2, 0 >>, << 0, 1 >>,
                              << 0, -1 >> >>)
    /\ IsRational(evals[1], Q(4, 5))
    /\ IsRational(evals[2], Q(1, 5))
    /\ evecs[1] = SolverVector(2)
    /\ evecs[2] = SolverVector(1)

(* The two eigenvalues returned are one number, or both NaN. *)
Tie == evals[1] = evals[2]

(* C24 as claimed: the descending sort is stable with respect to the
   solver's order, so of two equal eigenvalues the pair that came first in
   the solver's output comes first in the sorted output. *)
C24_Original ==
    (EigenReturned /\ sort /\ Tie) =>
        /\ ReturnedVector(1) = SolverVector(1)
        /\ ReturnedVector(2) = SolverVector(2)

(* C24: the descending order is the reversal of a stable ascending order,
   so of two equal eigenvalues the pair that came last in the solver's
   output comes first in the sorted output; unequal eigenvalues come
   largest first. *)
C24_TiesReversed ==
    (EigenReturned /\ sort) =>
        IF Tie
        THEN /\ ReturnedVector(1) = SolverVector(2)
             /\ ReturnedVector(2) = SolverVector(1)
        ELSE EvLess(evals[2], evals[1])

(* The cross with equal arms: both eigenvalues 1/2, the solver's second
   eigenvector in the first column. *)
C24_Witness ==
    /\ EigenReturned
    /\ sort /\ ~transpose /\ ~PCA /\ ~robust
    /\ coords = HalfPoints(<< << 2, 0 >>, << -2, 0 >>, << 0, 2 >>,
                              << 0, -2 >> >>)
    /\ IsRational(evals[1], Q(1, 2))
    /\ IsRational(evals[2], Q(1, 2))
    /\ [i \in 1..2 |-> evecs[i][1]] = SolverVector(2)

(* The total variance: the sum of the eigenvalues of cov, its trace. *)
TotalVariance == QAdd(Plain(cov[1][1]), Plain(cov[2][2]))

(* t + s * sqrt(r) >= 0 *)
NonNegative(e) ==
    /\ ~IsNaN(e)
    /\ e.t.n >= 0
    /\ e.s >= 0 \/ ~QLess(QMul(e.t, e.t), e.r)

(* The two numbers add up to 1. *)
SumToOne(ev) ==
    /\ QAdd(ev[1].t, ev[2].t) = Whole(1)
    /\ ev[1].s + ev[2].s = 0
    /\ ev[1].r = ev[2].r

(* The points (+-1, 0), (0, +-1/2) and (+-1, 0), (+-2, 0) of the tests. *)
TestCross ==
    HalfPoints(<< << 2, 0 >>, << -2, 0 >>, << 0, 1 >>, << 0, -1 >> >>)

TestZeroVariance ==
    HalfPoints(<< << 2, 0 >>, << -2, 0 >>, << 4, 0 >>, << -4, 0 >> >>)

(* C25: with PCA set each eigenvalue is divided by the sum of the
   eigenvalues.  When the total variance is positive the returned
   eigenvalues are non-negative and sum to 1 ([0.8, 0.2] for the cross of
   four points, [1, 0] when one dimension has no variance); when it is
   exactly 0 they are NaN, nothing is raised and nothing is put in their
   place. *)
C25_VarianceFractions ==
    (EigenReturned /\ PCA) =>
        /\ ret.status = "ok"
        /\ \A k \in 1..2 : \E j \in 1..2 :
               evals[k] = EvDiv(eigh(cov).evals[j], TotalVariance)
        /\ TotalVariance.n > 0 =>
               /\ \A k \in 1..2 : NonNegative(evals[k])
               /\ SumToOne(evals)
        /\ TotalVariance.n = 0 => \A k \in 1..2 : IsNaN(evals[k])
        /\ (coords = TestCross /\ sort) =>
               /\ IsRational(evals[1], Q(4, 5))
               /\ IsRational(evals[2], Q(1, 5))
        /\ (coords = TestZeroVariance /\ sort) =>
               /\ IsRational(evals[1], Whole(1))
               /\ IsRational(evals[2], Whole(0))

(* Two copies of one point: no variance at all, and both eigenvalues come
   back as NaN. *)
C25_Witness ==
    /\ EigenReturned
    /\ PCA
    /\ Len(coords) = 2
    /\ coords[1] = coords[2]
    /\ TotalVariance = Whole(0)
    /\ ret.status = "ok"
    /\ evals = << EvNaN, EvNaN >>

(* What the call would have returned for the same points and flags with
   center set. *)
WithCentring == coord_eig_decomp(coords, robust, TRUE, PCA, sort, transpose)

(* C27: the center flag does not change the result: for every point set and
   every setting of robust, PCA, sort and transpose the call without
   centring returns what the call with centring returns, the classical and
   the robust covariance being the same for the points and for the points
   moved to their mean. *)
C27_CenterInvariance ==
    (EigenReturned /\ ~center) =>
        /\ cov = cond_robust(robust, Centred(coords))
        /\ << evals, evecs >> = WithCentring

(* Points about (1/2, 1/2) with two far ones that the robust estimator
   weighs down, not centred. *)
C27_Witness ==
    /\ EigenReturned
    /\ ~center
    /\ robust
    /\ Mean(coords) = << Q(1, 2), Q(1, 2) >>
    /\ Len(coords) = 6
    /\ cov /= BiasedCov(coords)
    /\ << evals, evecs >> = WithCentring

====
